---- MODULE Spec2Model ----
(***************************************************************************)
(* Model of services/core/jni/com_google_android_things_odroidThingService *)
(* .cpp: the lazily created service handle (OdroidThingHal), the GPIO      *)
(* callback bridge (class Callback, registerCallback, unregisterCallback)  *)
(* and the byte-buffer entry points of the I2C, UART and SPI classes.      *)
(*                                                                         *)
(* The hardware service (IOdroidThings) is not part of this file.  Its     *)
(* behaviour is the environment: getService() may fail, the service keeps  *)
(* one callback per pin, and a fake service stores what is written per     *)
(* line.  Those definitions are marked as modelled from the specification. *)
(***************************************************************************)
EXTENDS Integers, Sequences, FiniteSets, TLC

\* ------------------------------------------------------------------ bounds

\* Calls of IOdroidThings::getService() the model follows.
MaxContacts == 5
\* Callback objects constructed by registerCallback.
MaxBridges == 3
\* Hardware events raised by the service.
MaxEvents == 2
\* Longest byte buffer crossing the boundary.
MaxLen == 2

\* Threads of the managed runtime calling into the native methods.
Threads == {"t1", "t2"}
\* The one caller of the serialized (single threaded) use of the handle.
MainThread == "t1"
\* hwbinder threads of this process on which the service's calls arrive.
BinderThreads == {"b1", "b2"}
\* GPIO pins.
Pins == {0, 1}
\* Bus indices (idx) of the I2C, UART and SPI entry points.
Lines == {0, 1}
\* jbyte values used as buffer contents: a negative and a positive one.
JBytes == {-1, 1}

\* ------------------------------------------------------------ the handle

\* sp<IOdroidThings> holding no object (line 75).
nullptr == 0

VARIABLES
    sOdroidThings,  \* OdroidThingHal::sOdroidThings: nullptr or a connection
    pc,             \* per thread: its position inside associate()
    tmp,            \* per thread: the temporary getService() returned
    hal,            \* per thread: <<>> or <<h>>, the handle its last associate() returned
    contacts,       \* number of getService() calls made so far
    lastRet,        \* <<>> or <<h>>: what the last completed associate() returned
    invalidated,    \* disassociate() ran since the last completed associate()
    contacted,      \* per thread: the running associate() called getService()
    established,    \* connections established since the last disassociate()
    fault,          \* "none", or why the process stopped
    cbPin,          \* per Callback object: its field pin
    cbEnv,          \* per Callback object: its field env
    table,          \* the service's callback per pin (0: none)
    binder,         \* per hwbinder thread: its position inside doCallback()
    evInfo,         \* per hardware event: pin, callback dispatched, state of the pin
    log,            \* calls of OdroidThingsManager.doCallback(int) made
    latest,         \* per pin: the Callback the last registerCallback(pin) made (0: none)
    lastOp,         \* per pin: the last native call completed for it
    store,          \* the fake service's bytes per line
    lastWrite,      \* the last write through this file: entry point, line, jbytes
    lastIo          \* the last buffer entry point run and what it returned

handleVars == <<sOdroidThings, pc, tmp, hal, contacts, lastRet, invalidated,
                contacted, established>>
callbackVars == <<cbPin, cbEnv, table, binder, evInfo, log, latest, lastOp>>
bufferVars == <<store, lastWrite, lastIo>>
vars == <<handleVars, fault, callbackVars, bufferVars>>

\* IOdroidThings::getService(): a new proxy, numbered n by the call that
\* made it, or nullptr when the service is not reachable.
getService(up, n) == IF up THEN n ELSE nullptr

\* No buffer entry point has run, or the caller has taken its result.
NoIo == [op |-> "none", idx |-> 0, length |-> 0, status |-> "none",
         delivered |-> <<>>, out |-> <<>>, ret |-> FALSE, oob |-> FALSE]

\* The state after construction: the static handle is nullptr (line 75), no
\* call is running, no callback is registered, nothing was written.
Init ==
    /\ sOdroidThings = nullptr
    /\ pc = [t \in Threads |-> "idle"]
    /\ tmp = [t \in Threads |-> nullptr]
    /\ hal = [t \in Threads |-> <<>>]
    /\ contacts = 0
    /\ lastRet = <<>>
    /\ invalidated = FALSE
    /\ contacted = [t \in Threads |-> FALSE]
    /\ established = {}
    /\ fault = "none"
    /\ cbPin = <<>>
    /\ cbEnv = <<>>
    /\ table = [p \in Pins |-> 0]
    /\ binder = [b \in BinderThreads |-> [pc |-> "idle", cb |-> 0, ev |-> 0]]
    /\ evInfo = <<>>
    /\ log = <<>>
    /\ latest = [p \in Pins |-> 0]
    /\ lastOp = [p \in Pins |-> "none"]
    /\ store = [l \in Lines |-> <<>>]
    /\ lastWrite = [op |-> "none", idx |-> 0, data |-> <<>>]
    /\ lastIo = NoIo

\* Calls of getService() still to be made by the threads inside associate().
Pending == Cardinality({t \in Threads : pc[t] = "get"})

\* A variant of associate() that never reuses the stored handle.
associate_check_noReuse(t) ==
    /\ pc[t] = "idle"
    /\ contacts + Pending < MaxContacts
    /\ pc' = [pc EXCEPT ![t] = "get"]
    /\ contacted' = [contacted EXCEPT ![t] = FALSE]
    /\ tmp' = [tmp EXCEPT ![t] = nullptr]
    /\ UNCHANGED <<sOdroidThings, hal, contacts, lastRet, invalidated, established,
                   fault, callbackVars, bufferVars>>

\* A variant of associate() that contacts the service on the first call only.
associate_check_once(t) ==
    /\ pc[t] = "idle"
    /\ contacts + Pending < MaxContacts
    /\ pc' = [pc EXCEPT ![t] = IF sOdroidThings = nullptr /\ contacts = 0
                                 THEN "get" ELSE "ret"]
    /\ contacted' = [contacted EXCEPT ![t] = FALSE]
    /\ tmp' = [tmp EXCEPT ![t] = nullptr]
    /\ UNCHANGED <<sOdroidThings, hal, contacts, lastRet, invalidated, established,
                   fault, callbackVars, bufferVars>>

\* associate(), line 64: thread t enters and tests sOdroidThings == nullptr.
associate_check(t) ==
    /\ pc[t] = "idle"
    /\ contacts + Pending < MaxContacts \/ sOdroidThings # nullptr
    /\ pc' = [pc EXCEPT ![t] = IF sOdroidThings = nullptr THEN "get" ELSE "ret"]
    /\ contacted' = [contacted EXCEPT ![t] = FALSE]
    /\ tmp' = [tmp EXCEPT ![t] = nullptr]
    /\ UNCHANGED <<sOdroidThings, hal, contacts, lastRet, invalidated, established,
                   fault, callbackVars, bufferVars>>

\* associate(), line 65, right-hand side: the call of getService().
associate_getService(t) ==
    /\ pc[t] = "get"
    /\ \E up \in BOOLEAN :
         /\ tmp' = [tmp EXCEPT ![t] = getService(up, contacts + 1)]
         /\ established' = IF up THEN established \cup {contacts + 1} ELSE established
    /\ contacts' = contacts + 1
    /\ contacted' = [contacted EXCEPT ![t] = TRUE]
    /\ pc' = [pc EXCEPT ![t] = "store"]
    /\ UNCHANGED <<sOdroidThings, hal, lastRet, invalidated,
                   fault, callbackVars, bufferVars>>

\* associate(), line 65, the assignment to sOdroidThings (lines 67-69 only log).
associate_store(t) ==
    /\ pc[t] = "store"
    /\ sOdroidThings' = tmp[t]
    /\ pc' = [pc EXCEPT ![t] = "ret"]
    /\ UNCHANGED <<tmp, hal, contacts, lastRet, invalidated, contacted, established,
                   fault, callbackVars, bufferVars>>

\* associate(), line 71: return sOdroidThings.
associate_return(t) ==
    /\ pc[t] = "ret"
    /\ hal' = [hal EXCEPT ![t] = <<sOdroidThings>>]
    /\ lastRet' = <<sOdroidThings>>
    /\ invalidated' = FALSE
    /\ pc' = [pc EXCEPT ![t] = "idle"]
    /\ UNCHANGED <<sOdroidThings, tmp, contacts, contacted, established,
                   fault, callbackVars, bufferVars>>

\* disassociate(), lines 59-61, called by a thread that is not inside associate().
disassociate(t) ==
    /\ pc[t] = "idle"
    /\ sOdroidThings' = nullptr
    /\ invalidated' = TRUE
    /\ established' = {}
    /\ UNCHANGED <<pc, tmp, hal, contacts, lastRet, contacted,
                   fault, callbackVars, bufferVars>>

\* The handle manager used from several threads at once.
NextHandle ==
    \E t \in Threads :
        \/ associate_check(t)
        \/ associate_getService(t)
        \/ associate_store(t)
        \/ associate_return(t)
        \/ disassociate(t)

SpecHandle == Init /\ [][NextHandle]_vars

\* The handle manager used by one thread: the calls follow one another.
NextHandleSeq ==
    \/ associate_check(MainThread)
    \/ associate_getService(MainThread)
    \/ associate_store(MainThread)
    \/ associate_return(MainThread)
    \/ disassociate(MainThread)

SpecHandleSeq == Init /\ [][NextHandleSeq]_vars

\* ------------------------------------------------- the callback bridge

\* associate() run to its end by a caller that no other thread interrupts
\* (lines 63-72): the handle it returns.
Associated(h, up, n) == IF h = nullptr THEN getService(up, n) ELSE h

\* The answers getService() can give in a call of associate(): it is called
\* only when the stored handle is nullptr (line 64).
Ups == IF sOdroidThings = nullptr THEN BOOLEAN ELSE {TRUE}

\* The effect of the call of OdroidThingHal::associate() that opens every
\* native method, on the handle and on the count of getService() calls.
AssociateCall(up) ==
    /\ sOdroidThings # nullptr \/ contacts < MaxContacts
    /\ sOdroidThings' = Associated(sOdroidThings, up, contacts + 1)
    /\ contacts' = IF sOdroidThings = nullptr THEN contacts + 1 ELSE contacts
    /\ established' = IF sOdroidThings = nullptr /\ up
                        THEN established \cup {contacts + 1} ELSE established
    /\ UNCHANGED <<pc, tmp, hal, lastRet, invalidated, contacted>>

\* A variant of init() that drops the stored handle before it associates,
\* as a call of disassociate() at its start would.
init_disassociate ==
    /\ fault = "none"
    /\ contacts < MaxContacts
    /\ \E up \in BOOLEAN :
         /\ sOdroidThings' = getService(up, contacts + 1)
         /\ established' = IF up THEN established \cup {contacts + 1}
                                 ELSE established
    /\ contacts' = contacts + 1
    /\ UNCHANGED <<pc, tmp, hal, lastRet, invalidated, contacted>>
    /\ UNCHANGED <<fault, callbackVars, bufferVars>>

\* init(), lines 77-79.
init ==
    /\ fault = "none"
    /\ \E up \in Ups : AssociateCall(up)
    /\ UNCHANGED <<fault, callbackVars, bufferVars>>

\* The service's gpio_registerCallback: it keeps one callback per pin.
gpio_registerCallback(tbl, pin, callback) == [tbl EXCEPT ![pin] = callback]

\* The service's gpio_unregisterCallback: it forgets the pin's callback.
gpio_unregisterCallback(tbl, pin) == [tbl EXCEPT ![pin] = 0]

\* A Callback built by the default constructor's values (lines 167-170).
Callback_defaultPin(env, pin) == [env |-> env, pin |-> -1]

\* Callback::Callback(JNIEnv*, int), lines 177-184: the fields env and pin.
\* The class and method it looks up are the same for every object.
Callback(env, pin) == [env |-> env, pin |-> pin]

\* registerCallback(env, obj, pin), lines 193-197.  hal-> on a handle that
\* is nullptr stops the process.
registerCallback(pin) ==
    /\ fault = "none"
    /\ Len(cbPin) < MaxBridges
    /\ \E up \in Ups :
         /\ AssociateCall(up)
         /\ IF sOdroidThings' = nullptr
              THEN /\ fault' = "registerCallback: hal is nullptr"
                   /\ UNCHANGED callbackVars
              ELSE /\ cbPin' = Append(cbPin, Callback(MainThread, pin).pin)
                   /\ cbEnv' = Append(cbEnv, Callback(MainThread, pin).env)
                   /\ table' = gpio_registerCallback(table, pin, Len(cbPin) + 1)
                   /\ latest' = [latest EXCEPT ![pin] = Len(cbPin) + 1]
                   /\ lastOp' = [lastOp EXCEPT ![pin] = "registered"]
                   /\ UNCHANGED <<fault, binder, evInfo, log>>
    /\ UNCHANGED bufferVars

\* A variant of unregisterCallback that asks the service to forget pin 0
\* whatever the pin asked for.
unregisterCallback_pin0(pin) ==
    /\ fault = "none"
    /\ \E up \in Ups :
         /\ AssociateCall(up)
         /\ IF sOdroidThings' = nullptr
              THEN /\ fault' = "unregisterCallback: hal is nullptr"
                   /\ UNCHANGED callbackVars
              ELSE /\ table' = gpio_unregisterCallback(table, 0)
                   /\ lastOp' = [lastOp EXCEPT ![pin] = "unregistered"]
                   /\ UNCHANGED <<fault, cbPin, cbEnv, binder, evInfo, log, latest>>
    /\ UNCHANGED bufferVars

\* unregisterCallback(env, obj, pin), lines 199-202.
unregisterCallback(pin) ==
    /\ fault = "none"
    /\ \E up \in Ups :
         /\ AssociateCall(up)
         /\ IF sOdroidThings' = nullptr
              THEN /\ fault' = "unregisterCallback: hal is nullptr"
                   /\ UNCHANGED callbackVars
              ELSE /\ table' = gpio_unregisterCallback(table, pin)
                   /\ lastOp' = [lastOp EXCEPT ![pin] = "unregistered"]
                   /\ UNCHANGED <<fault, cbPin, cbEnv, binder, evInfo, log, latest>>
    /\ UNCHANGED bufferVars

\* The service sees an edge on a pin and calls the pin's callback, if it
\* keeps one; the call arrives on hwbinder thread b of this process.
HwEvent(pin, b) ==
    /\ fault = "none"
    /\ Len(evInfo) < MaxEvents
    /\ binder[b].pc = "idle"
    /\ evInfo' = Append(evInfo, [pin |-> pin, cb |-> table[pin],
                                 latest |-> latest[pin], op |-> lastOp[pin]])
    /\ binder' = IF table[pin] = 0 THEN binder
                 ELSE [binder EXCEPT ![b] = [pc |-> "attach", cb |-> table[pin],
                                             ev |-> Len(evInfo) + 1]]
    /\ UNCHANGED <<handleVars, fault, cbPin, cbEnv, table, log, latest, lastOp,
                   bufferVars>>

\* Callback::doCallback(), line 187: AttachCurrentThread(&env, NULL) writes
\* the JNIEnv of the running thread into the object's field env.
doCallback_attach(b) ==
    /\ fault = "none"
    /\ binder[b].pc = "attach"
    /\ cbEnv' = [cbEnv EXCEPT ![binder[b].cb] = b]
    /\ binder' = [binder EXCEPT ![b].pc = "call"]
    /\ UNCHANGED <<handleVars, fault, cbPin, table, evInfo, log, latest, lastOp,
                   bufferVars>>

\* Callback::doCallback(), lines 188-190: CallStaticVoidMethod through the
\* field env, with the field pin.  Through the JNIEnv of another thread the
\* call is undefined: it goes through, or the runtime aborts the process.
doCallback_call(b) ==
    /\ fault = "none"
    /\ binder[b].pc = "call"
    /\ \/ /\ log' = Append(log, [ev |-> binder[b].ev, cb |-> binder[b].cb,
                                 pin |-> cbPin[binder[b].cb],
                                 env |-> cbEnv[binder[b].cb], thread |-> b])
          /\ binder' = [binder EXCEPT ![b] = [pc |-> "idle", cb |-> 0, ev |-> 0]]
          /\ UNCHANGED fault
       \/ /\ cbEnv[binder[b].cb] # b
          /\ fault' = "doCallback: JNIEnv of another thread"
          /\ binder' = [binder EXCEPT ![b].pc = "aborted"]
          /\ UNCHANGED log
    /\ UNCHANGED <<handleVars, cbPin, cbEnv, table, evInfo, latest, lastOp, bufferVars>>

\* The GPIO callback methods, the managed caller serialized, the service's
\* calls arriving on the hwbinder threads.
NextCallback ==
    \/ \E pin \in Pins : registerCallback(pin)
    \/ \E pin \in Pins : unregisterCallback(pin)
    \/ \E pin \in Pins, b \in BinderThreads : HwEvent(pin, b)
    \/ \E b \in BinderThreads : doCallback_attach(b)
    \/ \E b \in BinderThreads : doCallback_call(b)

SpecCallback == Init /\ [][NextCallback]_vars

\* ------------------------------------------------------ the byte buffers

\* The (uint8_t *) view of a jbyte (lines 273, 369, 460, 489).
toU8(b) == b % 256

\* The (jbyte *) view of a uint8_t (lines 259, 355, 443, 476).
toJbyte(u) == IF u >= 128 THEN u - 256 ELSE u

\* The bytes the service and the heap can hold.
U8 == {toU8(b) : b \in JBytes}

\* The jbyteArray arguments of the managed caller.
Buffers == UNION {[1..n -> JBytes] : n \in 0..MaxLen}

\* A copy loop that starts one element late.
CopyIn_skipFirst(data, length) ==
    [i \in 1..length |-> IF i = 1 THEN 0 ELSE toU8(data[i])]

\* The loop that fills the hidl_vec of a write (lines 274-275, 370-371,
\* 461-462, 490-491).
CopyIn(data, length) == [i \in 1..length |-> toU8(data[i])]

\* The loop that fills retBuffer and the jbyteArray made of it (lines
\* 254-259, 350-355, 438-443, 471-476); junk stands for what lies behind
\* the end of buffer.
CopyOut(buffer, n, junk) ==
    [i \in 1..n |-> toJbyte(IF i <= Len(buffer) THEN buffer[i] ELSE junk[i])]

\* The fake service keeps the bytes last written to a line.
FakeWrite(st, idx, vec, length) == [st EXCEPT ![idx] = SubSeq(vec, 1, length)]

\* The fake service delivers the bytes it keeps for the line, at most length.
FakeRead(st, idx, length) ==
    SubSeq(st[idx], 1, IF length < Len(st[idx]) THEN length ELSE Len(st[idx]))

\* How a read of the service ends: it delivers ("ok"), it reports a
\* failure and delivers nothing ("fail"), or the transport fails and the
\* result callback is never run ("dead").
Outcomes == {"ok", "fail", "dead"}

\* An entry point dereferences the handle associate() returned.
NullHandle(name) ==
    /\ fault' = name
    /\ UNCHANGED bufferVars

\* The jbyteArray of n bytes copied out of buffer is returned.  buffer[i]
\* behind the end of a hidl_vec is undefined: it reads whatever lies there,
\* or the process stops.
ReturnCopied(io, buffer, n, name) ==
    IF n <= Len(buffer)
      THEN /\ lastIo' = [io EXCEPT !.out = CopyOut(buffer, n, <<>>),
                                   !.ret = TRUE, !.oob = FALSE]
           /\ UNCHANGED fault
      ELSE \/ /\ \E junk \in [(Len(buffer) + 1)..n -> U8] :
                   lastIo' = [io EXCEPT !.out = CopyOut(buffer, n, junk),
                                        !.ret = TRUE, !.oob = TRUE]
              /\ UNCHANGED fault
           \/ /\ lastIo' = [io EXCEPT !.out = <<>>, !.ret = FALSE, !.oob = TRUE]
              /\ fault' = name

\* env->NewByteArray(0) is returned.
ReturnEmpty(io) ==
    /\ lastIo' = [io EXCEPT !.out = <<>>, !.ret = TRUE, !.oob = FALSE]
    /\ UNCHANGED fault

\* The record of a buffer entry point that is running.
Io(op, idx, length, status, delivered) ==
    [op |-> op, idx |-> idx, length |-> length, status |-> status,
     delivered |-> delivered, out |-> <<>>, ret |-> FALSE, oob |-> FALSE]

\* The managed caller can enter a buffer entry point: the process runs and
\* the caller has taken the result of its last call.
Callable == fault = "none" /\ lastIo = NoIo

\* readI2cRegBuffer(env, obj, idx, reg, length), lines 242-266.  The branch
\* at line 253 tests the transport, not the Result the service reported.
readI2cRegBuffer(idx, length, kind) ==
    /\ Callable
    /\ \E up \in Ups :
         /\ AssociateCall(up)
         /\ IF sOdroidThings' = nullptr
              THEN NullHandle("readI2cRegBuffer: hal is nullptr")
              ELSE LET delivered == IF kind = "ok" THEN FakeRead(store, idx, length)
                                    ELSE <<>>
                       buffer == IF kind = "ok" THEN delivered ELSE <<>>
                       io == Io("readI2cRegBuffer", idx, length, kind, delivered)
                   IN  /\ IF kind = "dead"
                            THEN ReturnEmpty(io)
                            ELSE ReturnCopied(io, buffer, length,
                                              "readI2cRegBuffer: buffer[i] behind the end")
                       /\ UNCHANGED <<store, lastWrite>>
    /\ UNCHANGED callbackVars

\* writeI2cRegBuffer(env, obj, idx, reg, buffer, length), lines 268-281.
writeI2cRegBuffer(idx, buffer, length) ==
    /\ Callable
    /\ \E up \in Ups :
         /\ AssociateCall(up)
         /\ IF sOdroidThings' = nullptr
              THEN NullHandle("writeI2cRegBuffer: hal is nullptr")
              ELSE /\ store' = FakeWrite(store, idx, CopyIn(buffer, length), length)
                   /\ lastWrite' = [op |-> "writeI2cRegBuffer", idx |-> idx,
                                   data |-> SubSeq(buffer, 1, length)]
                   /\ lastIo' = [Io("writeI2cRegBuffer", idx, length, "ok", <<>>)
                                    EXCEPT !.ret = TRUE]
                   /\ UNCHANGED fault
    /\ UNCHANGED callbackVars

\* What retLength holds after uart_read (lines 340-347): the length the
\* service reported, or, when the callback never ran, whatever the
\* uninitialized variable holds.
RetLengths(kind, delivered) ==
    CASE kind = "ok" -> {Len(delivered)}
      [] kind = "fail" -> {-1}
      [] OTHER -> (-1)..MaxLen

\* readUart(env, obj, idx, length), lines 335-362.
readUart(idx, length, kind) ==
    /\ Callable
    /\ \E up \in Ups :
         /\ AssociateCall(up)
         /\ IF sOdroidThings' = nullptr
              THEN NullHandle("readUart: hal is nullptr")
              ELSE LET delivered == IF kind = "ok" THEN FakeRead(store, idx, length)
                                    ELSE <<>>
                       io == Io("readUart", idx, length, kind, delivered)
                   IN  /\ \E retLength \in RetLengths(kind, delivered) :
                            LET buffer == IF kind # "dead" /\ retLength > 0
                                            THEN delivered ELSE <<>>
                            IN  IF retLength > 0
                                  THEN ReturnCopied(io, buffer, retLength,
                                                    "readUart: buffer[i] behind the end")
                                  ELSE ReturnEmpty(io)
                       /\ UNCHANGED <<store, lastWrite>>
    /\ UNCHANGED callbackVars

\* writeUart(env, obj, idx, buffer, length), lines 364-378.
writeUart(idx, buffer, length) ==
    /\ Callable
    /\ \E up \in Ups :
         /\ AssociateCall(up)
         /\ IF sOdroidThings' = nullptr
              THEN NullHandle("writeUart: hal is nullptr")
              ELSE /\ store' = FakeWrite(store, idx, CopyIn(buffer, length), length)
                   /\ lastWrite' = [op |-> "writeUart", idx |-> idx,
                                   data |-> SubSeq(buffer, 1, length)]
                   /\ lastIo' = [Io("writeUart", idx, length, "ok", <<>>)
                                    EXCEPT !.ret = TRUE]
                   /\ UNCHANGED fault
    /\ UNCHANGED callbackVars

\* readSpi(env, obj, idx, length), lines 426-450.  The length the service
\* reports is not used.
readSpi(idx, length, kind) ==
    /\ Callable
    /\ \E up \in Ups :
         /\ AssociateCall(up)
         /\ IF sOdroidThings' = nullptr
              THEN NullHandle("readSpi: hal is nullptr")
              ELSE LET delivered == IF kind = "ok" THEN FakeRead(store, idx, length)
                                    ELSE <<>>
                       io == Io("readSpi", idx, length, kind, delivered)
                   IN  /\ IF kind = "dead"
                            THEN ReturnEmpty(io)
                            ELSE ReturnCopied(io, delivered, length,
                                              "readSpi: rxBuffer[i] behind the end")
                       /\ UNCHANGED <<store, lastWrite>>
    /\ UNCHANGED callbackVars

\* transferSpi(env, obj, idx, txArray, length), lines 452-483.  The fake
\* service delivers what it keeps for the line and then keeps txBuffer.
transferSpi(idx, txArray, length, kind) ==
    /\ Callable
    /\ \E up \in Ups :
         /\ AssociateCall(up)
         /\ IF sOdroidThings' = nullptr
              THEN NullHandle("transferSpi: hal is nullptr")
              ELSE LET delivered == IF kind = "ok" THEN FakeRead(store, idx, length)
                                    ELSE <<>>
                       io == Io("transferSpi", idx, length, kind, delivered)
                   IN  /\ IF kind = "dead"
                            THEN ReturnEmpty(io)
                            ELSE ReturnCopied(io, delivered, length,
                                              "transferSpi: rxBuffer[i] behind the end")
                       /\ IF kind = "ok"
                            THEN /\ store' = FakeWrite(store, idx,
                                                       CopyIn(txArray, length), length)
                                 /\ lastWrite' = [op |-> "transferSpi", idx |-> idx,
                                   data |-> SubSeq(txArray, 1, length)]
                            ELSE UNCHANGED <<store, lastWrite>>
    /\ UNCHANGED callbackVars

\* writeSpi(env, obj, idx, txArray, length), lines 485-497.
writeSpi(idx, txArray, length) ==
    /\ Callable
    /\ \E up \in Ups :
         /\ AssociateCall(up)
         /\ IF sOdroidThings' = nullptr
              THEN NullHandle("writeSpi: hal is nullptr")
              ELSE /\ store' = FakeWrite(store, idx, CopyIn(txArray, length), length)
                   /\ lastWrite' = [op |-> "writeSpi", idx |-> idx,
                                   data |-> SubSeq(txArray, 1, length)]
                   /\ lastIo' = [Io("writeSpi", idx, length, "ok", <<>>)
                                    EXCEPT !.ret = TRUE]
                   /\ UNCHANGED fault
    /\ UNCHANGED callbackVars

\* The native method returns (lines 265, 361, 449, 482): the managed caller
\* takes the result and is free to make its next call.
ManagedReturn ==
    /\ fault = "none"
    /\ lastIo # NoIo
    /\ lastIo' = NoIo
    /\ UNCHANGED <<handleVars, fault, callbackVars, store, lastWrite>>

\* The buffer entry points, the managed caller serialized.  A caller passes
\* a length within its array; a read asks for 0..MaxLen bytes.
NextBuffer ==
    \/ Callable /\ \E idx \in Lines, length \in 0..MaxLen, kind \in Outcomes :
                       readI2cRegBuffer(idx, length, kind)
    \/ Callable /\ \E idx \in Lines, buffer \in Buffers :
                       \E length \in 0..Len(buffer) :
                           writeI2cRegBuffer(idx, buffer, length)
    \/ Callable /\ \E idx \in Lines, length \in 0..MaxLen, kind \in Outcomes :
                       readUart(idx, length, kind)
    \/ Callable /\ \E idx \in Lines, buffer \in Buffers :
                       \E length \in 0..Len(buffer) : writeUart(idx, buffer, length)
    \/ Callable /\ \E idx \in Lines, length \in 0..MaxLen, kind \in Outcomes :
                       readSpi(idx, length, kind)
    \/ Callable /\ \E idx \in Lines, txArray \in Buffers, kind \in Outcomes :
                       \E length \in 0..Len(txArray) :
                           transferSpi(idx, txArray, length, kind)
    \/ Callable /\ \E idx \in Lines, txArray \in Buffers :
                       \E length \in 0..Len(txArray) : writeSpi(idx, txArray, length)
    \/ ManagedReturn

SpecBuffer == Init /\ [][NextBuffer]_vars

\* --------------------------------------------------------- the process

\* Every native method and every step of the threads.
Next ==
    \/ NextHandle
    \/ init
    \/ NextCallback
    \/ NextBuffer

Spec == Init /\ [][Next]_vars

\* The native methods that only hand scalars to one call of the service
\* (lines 81-151, 204-240, 283-333, 380-424).
Forwarders ==
    {"getPinName", "getListOf", "setGpioDirection", "setGpioValue",
     "getGpioValue", "setGpioActiveType", "setEdgeTriggerType",
     "openPwm", "closePwm", "setPwmEnable", "setDutyCycle", "setFrequency",
     "openI2c", "closeI2c",
     "openUart", "closeUart", "flush", "sendBreak", "setBaudrate",
     "setDataSize", "setHardwareFlowControl", "setParity", "setStopBits",
     "openSpi", "closeSpi", "setBitJustification", "setBitsPerWord",
     "setMode", "setCsChange", "setDelay", "setFrequencySpi"}

\* One of these methods: associate(), then hal-> on the handle it returned,
\* which stops the process when the handle is nullptr.
forward(name) ==
    /\ fault = "none"
    /\ \E up \in Ups :
         /\ AssociateCall(up)
         /\ fault' = IF sOdroidThings' = nullptr THEN "forward: hal is nullptr"
                                                 ELSE fault
    /\ UNCHANGED <<callbackVars, bufferVars>>

\* The lengths and the arrays the buffer methods are called with when every
\* native method is in play: none or one byte, the byte 0xFF.
EntryLengths == {0, 1}

EntryBuffers == {buffer \in Buffers : \A i \in 1..Len(buffer) : i = 1 /\ buffer[i] = -1}

\* The native methods of the tables sManagerMethods .. sSpiMethod (lines
\* 499-640), called one after the other by the managed layer.
NextEntry ==
    \/ Callable /\ init
    \/ Callable /\ \E name \in Forwarders : forward(name)
    \/ Callable /\ \E pin \in Pins : registerCallback(pin)
    \/ Callable /\ \E pin \in Pins : unregisterCallback(pin)
    \/ Callable /\ \E idx \in Lines, length \in EntryLengths, kind \in Outcomes :
                       readI2cRegBuffer(idx, length, kind)
    \/ Callable /\ \E idx \in Lines, buffer \in EntryBuffers :
                       writeI2cRegBuffer(idx, buffer, Len(buffer))
    \/ Callable /\ \E idx \in Lines, length \in EntryLengths, kind \in Outcomes :
                       readUart(idx, length, kind)
    \/ Callable /\ \E idx \in Lines, buffer \in EntryBuffers :
                       writeUart(idx, buffer, Len(buffer))
    \/ Callable /\ \E idx \in Lines, length \in EntryLengths, kind \in Outcomes :
                       readSpi(idx, length, kind)
    \/ Callable /\ \E idx \in Lines, txArray \in EntryBuffers, kind \in Outcomes :
                       transferSpi(idx, txArray, Len(txArray), kind)
    \/ Callable /\ \E idx \in Lines, txArray \in EntryBuffers :
                       writeSpi(idx, txArray, Len(txArray))
    \/ ManagedReturn

SpecEntry == Init /\ [][NextEntry]_vars

\* ------------------------------------------------- claims about the handle

\* Thread t returns from associate() in this step.
Returns(t) == pc[t] = "ret" /\ pc'[t] = "idle"

\* C1 as stated: two associate() calls with no disassociate() between them
\* return the same connection, and the first associate() after a
\* disassociate() establishes a new connection by contacting the service.
C1_AsStated ==
    [][\A t \in Threads : Returns(t) =>
          /\ (lastRet # <<>> /\ ~invalidated) => hal'[t] = lastRet
          /\ invalidated =>
                /\ contacted[t]
                /\ hal'[t] # <<nullptr>>
                /\ hal'[t] = <<tmp[t]>>
                /\ hal'[t] # lastRet]_vars

\* C1, amended: when an associate() returned a connection (not nullptr) and
\* no disassociate() ran since, the next associate() returns that same
\* connection; the first associate() after a disassociate() calls
\* getService() again and returns what that call produced: a connection
\* other than the one returned before, or nullptr when the service is not
\* reachable.
C1_SameUntilInvalidated ==
    [][\A t \in Threads : Returns(t) =>
          /\ (lastRet # <<>> /\ lastRet # <<nullptr>> /\ ~invalidated)
                => hal'[t] = lastRet
          /\ invalidated =>
                /\ contacted[t]
                /\ hal'[t] = <<tmp[t]>>
                /\ hal'[t] # <<nullptr>> => hal'[t] # lastRet]_vars

\* The first associate() after a disassociate() is about to return the
\* second connection; the call before returned the first.
C1_Witness ==
    /\ pc[MainThread] = "ret"
    /\ invalidated
    /\ contacted[MainThread]
    /\ lastRet = <<1>>
    /\ sOdroidThings = 2

\* Connections some reference of the process keeps alive.
Live == ({sOdroidThings} \cup {tmp[t] : t \in {u \in Threads : pc[u] = "store"}})
            \ {nullptr}

\* C2: whatever the interleaving of the threads inside associate(), the
\* connection is established at most once while no disassociate() runs, a
\* caller receives the handle the caller before it received, and at most
\* one connection is alive.
C2_EstablishedOnce ==
    /\ Cardinality(established) <= 1
    /\ Cardinality(Live) <= 1
    /\ \A t \in Threads :
          (pc[t] = "ret" /\ ~invalidated /\ lastRet # <<>> /\ lastRet # <<nullptr>>)
              => <<sOdroidThings>> = lastRet

\* C3: an associate() whose getService() failed returns nullptr, leaves
\* sOdroidThings nullptr and stops nothing; the associate() after one that
\* returned nullptr calls getService() again.
C3_FailureNotCached ==
    [][\A t \in Threads : Returns(t) =>
          /\ (contacted[t] /\ tmp[t] = nullptr) =>
                /\ hal'[t] = <<nullptr>>
                /\ sOdroidThings' = nullptr
                /\ fault' = "none"
          /\ lastRet = <<nullptr>> => contacted[t]]_vars

\* An associate() failed, and the next one failed again after calling
\* getService() a second time.
C3_Witness ==
    /\ pc[MainThread] = "ret"
    /\ lastRet = <<nullptr>>
    /\ contacted[MainThread]
    /\ contacts = 2
    /\ tmp[MainThread] = nullptr
    /\ sOdroidThings = nullptr

\* ------------------------------------------------ claims about the bridge

\* The calls of the managed entry point made for hardware event e.
Calls(e) == {i \in 1..Len(log) : log[i].ev = e}

\* A hwbinder thread is still inside doCallback() for hardware event e.
Delivering(e) ==
    \E b \in BinderThreads : binder[b].ev = e /\ binder[b].pc \in {"attach", "call"}

C5_UnregisterNoop ==
    [][\A pin \in Pins : (unregisterCallback(pin) /\ table[pin] = 0) =>
          (table' = table /\ fault' = "none")]_vars

C7_OwnPin ==
    \A i \in 1..Len(log) :
        /\ log[i].pin = evInfo[log[i].ev].pin
        /\ log[i].cb = evInfo[log[i].ev].cb

\* Two events on two pins were delivered on two threads at the same time:
\* the call for the later event came first.
C7_Witness ==
    /\ Len(log) = 2
    /\ log[1].ev = 2
    /\ log[2].ev = 1
    /\ log[1].pin # log[2].pin
    /\ log[1].thread # log[2].thread

\* C11: every invocation of Callback::doCallback attaches its thread before
\* it calls the managed entry point, makes exactly one call, and makes the
\* call through the JNIEnv the attach gave on that same thread, also when
\* two hwbinder threads run the same Callback and share its field env.
C11_OwnEnvOnce ==
    /\ \A b \in BinderThreads :
          binder[b].pc = "call" => cbEnv[binder[b].cb] \in BinderThreads
    /\ \A i \in 1..Len(log) : log[i].env = log[i].thread
    /\ \A e \in 1..Len(evInfo) :
          /\ Cardinality(Calls(e)) <= 1
          /\ (evInfo[e].cb # 0 /\ ~Delivering(e)) => Cardinality(Calls(e)) = 1

\* ----------------------------------------------- claims about the buffers

\* The entry points that return a jbyteArray.
Reads == {"readI2cRegBuffer", "readUart", "readSpi", "transferSpi"}

\* The read entry point that matches a write entry point.
ReadOf(op) ==
    CASE op = "writeUart" -> "readUart"
      [] op = "writeSpi" -> "readSpi"
      [] op = "writeI2cRegBuffer" -> "readI2cRegBuffer"
      [] OTHER -> "none"

\* The jbyteArray that holds exactly the bytes of a hidl_vec.
AsJbytes(vec) == [i \in 1..Len(vec) |-> toJbyte(vec[i])]

\* C8: a buffer read for which the service reported a failure returns a
\* jbyteArray of length zero, whatever length was asked for.
C8_FailureIsEmpty ==
    (lastIo.op \in Reads /\ lastIo.status = "fail") =>
        (lastIo.ret /\ lastIo.out = <<>>)

\* C9: against the fake service, a read of N bytes from the line and
\* through the entry point matching the last write, which wrote N bytes,
\* returns the bytes written, in order.
C9_RoundTrip ==
    (/\ lastWrite.op # "none"
     /\ lastIo.op = ReadOf(lastWrite.op)
     /\ lastIo.idx = lastWrite.idx
     /\ lastIo.length = Len(lastWrite.data)
     /\ lastIo.status = "ok") =>
        (lastIo.ret /\ ~lastIo.oob /\ lastIo.out = lastWrite.data)

\* writeUart wrote <<-1, 1>> to line 1 and readUart read both bytes back.
C9_Witness ==
    /\ lastWrite = [op |-> "writeUart", idx |-> 1, data |-> <<-1, 1>>]
    /\ lastIo.op = "readUart"
    /\ lastIo.idx = 1
    /\ lastIo.length = 2
    /\ lastIo.status = "ok"
    /\ lastIo.out = <<-1, 1>>

\* C10: a buffer read to which the service delivered a byte sequence
\* returns exactly that sequence and reads no element behind its end, also
\* when fewer bytes were delivered than asked for.
C10_ExactlyDelivered ==
    (lastIo.op \in Reads /\ lastIo.status = "ok") =>
        (~lastIo.oob /\ lastIo.ret /\ lastIo.out = AsJbytes(lastIo.delivered))

\* ---------------------------------------------- claims about the process

\* C12: no native method invalidates the handle: once the stored handle is
\* not nullptr, no call of a native method changes it or asks the service
\* manager again, so every later call uses that same handle.
C12_HandleKept ==
    [][sOdroidThings # nullptr =>
          /\ sOdroidThings' = sOdroidThings
          /\ contacts' = contacts
          /\ established' = established]_vars

\* A handle was stored after a failed init(), and a callback was registered
\* and bytes were written and read back with it.
C12_Witness ==
    /\ sOdroidThings # nullptr
    /\ contacts >= 2
    /\ Len(cbPin) >= 1
    /\ lastWrite.op # "none"
    /\ lastIo.op \in Reads
    /\ lastIo.ret

====
